---- MODULE Spec2Model ----
(***************************************************************************)
(* Model of the safer-transmute API surface (src/src/lib.rs).              *)
(*                                                                         *)
(* The crate is a set of trait declarations and impls: the "program" is    *)
(* the trait solver's decision  Dst: TransmuteFrom<Src, Neglect>  together *)
(* with the few function bodies the crate gives (transmute_from, the slice *)
(* casts, the Vec cast).  Types are terms, the stability declarations      *)
(* (impl PromiseTransmutableInto/From) are the mutable state of a crate    *)
(* graph, and every impl of the source is one operator.                    *)
(***************************************************************************)
EXTENDS Integers, Sequences, FiniteSets, TLC

(***************************************************************************)
(* Bounds of the model                                                     *)
(***************************************************************************)
MaxArrayLen == 2
MaxSliceLen == 3

(***************************************************************************)
(* Type terms.  Every term is a triple whose first component is its kind,  *)
(* so two terms of different kinds are told apart by the kind alone.       *)
(***************************************************************************)
NoType        == <<"none", "none", 0>>
Prim(n)       == <<"prim", n, 0>>
Nominal(n)    == <<"nominal", n, 0>>
TypeParam     == <<"param", "T", 0>>
Arr(T, n)     == <<"arr", T, n>>
Ref(T)        == <<"ref", T, 0>>
RefMut(T)     == <<"refmut", T, 0>>
Aligned(A, T) == <<"aligned", A, T>>

Kind(T) == T[1]
IsRef(T) == Kind(T) \in {"ref", "refmut"}

PrimNames    == {"unit", "u8", "u16", "u32", "u64"}
NumericNames == {"u8", "u16", "u32", "u64"}
NominalNames == {"Foo", "Bool", "Lib"}

Prims    == {Prim(n) : n \in PrimNames}
Numerics == {Prim(n) : n \in NumericNames}
Nominals == {Nominal(n) : n \in NominalNames}
Sized    == Prims \cup Nominals

\* intoArch, fromArch: the PromiseTransmutableInto / PromiseTransmutableFrom impls
\*     written for the nominal types (NoType: none written);
\* alignedDerive: whether the derive on mem::Aligned is applied;
\* call: the call site or trait bound examined last, and what came of it.
VARIABLES intoArch, fromArch, alignedDerive, call

vars  == <<intoArch, fromArch, alignedDerive, call>>
decls == <<intoArch, fromArch, alignedDerive>>

(***************************************************************************)
(* Layout facts of the host type system: size, alignment and, per byte,    *)
(* the set of values a valid instance may hold there.  Uninit stands for   *)
(* an uninitialised byte (padding, MaybeUninit).                           *)
(***************************************************************************)
Uninit    == 0 - 1
InitBytes == {0, 1, 2}
BoolBytes == {0, 1}
AnyBytes  == InitBytes \cup {Uninit}

Max(a, b) == IF a >= b THEN a ELSE b
Min(a, b) == IF a <= b THEN a ELSE b
RoundUp(n, a) == ((n + a - 1) \div a) * a

RECURSIVE GCD(_, _)
GCD(a, b) == IF b = 0 THEN a ELSE GCD(b, a % b)
LCM(a, b) == (a \div GCD(a, b)) * b

\* A generic type parameter has no layout the solver can inspect.
KnownLayout(T) == Kind(T) # "param" /\ Kind(T) # "none"

PrimSize(n) ==
    CASE n = "unit" -> 0
      [] n = "u8"   -> 1
      [] n = "u16"  -> 2
      [] n = "u32"  -> 4
      [] n = "u64"  -> 8

NominalSize(n) ==
    CASE n = "Foo"  -> 4
      [] n = "Bool" -> 1
      [] n = "Lib"  -> 4

NominalAlign(n) ==
    CASE n = "Foo"  -> 2
      [] n = "Bool" -> 1
      [] n = "Lib"  -> 4

PointerSize == 8

RECURSIVE AlignOf(_)
AlignOf(T) ==
    CASE Kind(T) = "prim"    -> Max(PrimSize(T[2]), 1)
      [] Kind(T) = "nominal" -> NominalAlign(T[2])
      [] Kind(T) = "arr"     -> AlignOf(T[2])
      [] Kind(T) = "ref"     -> PointerSize
      [] Kind(T) = "refmut"  -> PointerSize
      [] Kind(T) = "aligned" -> Max(AlignOf(T[2]), AlignOf(T[3]))

RECURSIVE SizeOf(_)
SizeOf(T) ==
    CASE Kind(T) = "prim"    -> PrimSize(T[2])
      [] Kind(T) = "nominal" -> NominalSize(T[2])
      [] Kind(T) = "arr"     -> T[3] * SizeOf(T[2])
      [] Kind(T) = "ref"     -> PointerSize
      [] Kind(T) = "refmut"  -> PointerSize
      [] Kind(T) = "aligned" -> RoundUp(SizeOf(T[3]), AlignOf(T))

\* The values a valid instance of T may hold in its byte i (0 <= i < SizeOf(T)).
RECURSIVE ByteValid(_, _)
ByteValid(T, i) ==
    CASE Kind(T) = "prim"    -> InitBytes
      [] Kind(T) = "nominal" ->
            IF T[2] = "Foo" THEN (IF i = 1 THEN AnyBytes ELSE InitBytes)
            ELSE IF T[2] = "Bool" THEN BoolBytes
            ELSE InitBytes
      [] Kind(T) = "arr"     -> ByteValid(T[2], i % SizeOf(T[2]))
      [] Kind(T) = "ref"     -> InitBytes
      [] Kind(T) = "refmut"  -> InitBytes
      [] Kind(T) = "aligned" -> AnyBytes

\* The byte pattern of T repeats with this period.
Period(T) ==
    IF Kind(T) = "arr" /\ SizeOf(T[2]) > 0 THEN SizeOf(T[2]) ELSE Max(SizeOf(T), 1)

\* Over the first n bytes, every valid Src byte is a valid Dst byte.
ValidityIncluded(Src, Dst, n) ==
    \A i \in 0 .. (Min(n, LCM(Period(Src), Period(Dst))) - 1) :
        ByteValid(Src, i) \subseteq ByteValid(Dst, i)

\* Over the first n bytes, some Src byte value is a valid Dst byte.
ValidityOverlaps(Src, Dst, n) ==
    \A i \in 0 .. (Min(n, LCM(Period(Src), Period(Dst))) - 1) :
        ByteValid(Src, i) \cap ByteValid(Dst, i) # {}

(***************************************************************************)
(* mod options: the waiver tokens and the two option families.             *)
(***************************************************************************)
NeglectStability == "Stability"
NeglectAlignment == "Alignment"
NeglectValidity  == "Validity"

NoNeglect == {}

\* Every selection of options one could write down (tuples are unordered here).
WaiverSets == SUBSET {NeglectStability, NeglectAlignment, NeglectValidity}

\* private::Sealed is implemented for (), and for each single option; the tuple
\* combinations are left unimplemented by the source.
Sealed == {NoNeglect, {NeglectStability}, {NeglectAlignment}, {NeglectValidity}}

\* impl UnsafeTransmuteOptions for ... (requires the Sealed supertrait)
UnsafeTransmuteOptions ==
    {W \in {NoNeglect, {NeglectStability}, {NeglectAlignment}, {NeglectValidity}} :
        W \in Sealed}

\* The safe family with  impl SafeTransmuteOptions for NeglectValidity  added.
SafeTransmuteOptions_WithValidity ==
    {W \in {NoNeglect, {NeglectStability}, {NeglectValidity}} :
        W \in {NoNeglect, {NeglectStability}, {NeglectAlignment}, {NeglectValidity}}}

\* impl SafeTransmuteOptions for ... (requires the UnsafeTransmuteOptions supertrait)
SafeTransmuteOptions ==
    {W \in {NoNeglect, {NeglectStability}} : W \in UnsafeTransmuteOptions}

(***************************************************************************)
(* The compiler's part of TransmuteFrom: the trait "is implemented         *)
(* automatically by the compiler for combinations of types where a         *)
(* transmutation is valid".  The source declares the trait and leaves this *)
(* part to the compiler; it is modelled from the specification (4.3, 4.5): *)
(*  - by value: equal sizes, and every valid source byte valid in the      *)
(*    destination unless validity is neglected;                            *)
(*  - references: the destination referent is no larger than the source    *)
(*    referent, no more aligned unless alignment is neglected, and valid   *)
(*    as above;                                                            *)
(*  - a mutable reference converts into a mutable or a shared one as a     *)
(*    shared reference converts into a shared one; a shared reference      *)
(*    never converts into a mutable one;                                   *)
(*  - even with validity neglected, a transmutation that cannot possibly   *)
(*    be valid is rejected.                                                *)
(***************************************************************************)
ValidityOk(Src, Dst, n, W) ==
    IF NeglectValidity \in W THEN ValidityOverlaps(Src, Dst, n)
    ELSE ValidityIncluded(Src, Dst, n)

\* The compiler's rule without the alignment check on references.
LayoutCompatible_NoAlignmentCheck(Src, Dst, W) ==
    /\ KnownLayout(Src)
    /\ KnownLayout(Dst)
    /\ IF IsRef(Src) /\ IsRef(Dst)
       THEN /\ ~(Kind(Src) = "ref" /\ Kind(Dst) = "refmut")
            /\ KnownLayout(Src[2]) /\ KnownLayout(Dst[2])
            /\ SizeOf(Dst[2]) <= SizeOf(Src[2])
            /\ ValidityOk(Src[2], Dst[2], SizeOf(Dst[2]), W)
       ELSE /\ ~IsRef(Src) /\ ~IsRef(Dst)
            /\ SizeOf(Dst) = SizeOf(Src)
            /\ ValidityOk(Src, Dst, SizeOf(Dst), W)

LayoutCompatible(Src, Dst, W) ==
    /\ KnownLayout(Src)
    /\ KnownLayout(Dst)
    /\ IF IsRef(Src) /\ IsRef(Dst)
       THEN /\ ~(Kind(Src) = "ref" /\ Kind(Dst) = "refmut")
            /\ KnownLayout(Src[2]) /\ KnownLayout(Dst[2])
            /\ SizeOf(Dst[2]) <= SizeOf(Src[2])
            /\ (NeglectAlignment \in W \/ AlignOf(Dst[2]) <= AlignOf(Src[2]))
            /\ ValidityOk(Src[2], Dst[2], SizeOf(Dst[2]), W)
       ELSE /\ ~IsRef(Src) /\ ~IsRef(Dst)
            /\ SizeOf(Dst) = SizeOf(Src)
            /\ ValidityOk(Src, Dst, SizeOf(Dst), W)

(***************************************************************************)
(* mod stability: which types promise a stable layout, and their           *)
(* archetypes.  intoArch / fromArch hold the impls written for the nominal *)
(* types; the primitives and the carriers have the impls of the source.    *)
(***************************************************************************)
\* The reflexive impl written for the default Neglect instead of NeglectStability.
ReflexiveImpl_DefaultNeglect(Src, Dst, W) == W = NoNeglect /\ Src = Dst

\* unsafe impl<T> TransmuteFrom<T, NeglectStability> for T {}
ReflexiveImpl(Src, Dst, W) == W = {NeglectStability} /\ Src = Dst

\* Dst: TransmuteFrom<Src, NeglectStability>, which the archetype bounds ask for.
TransmuteFromNeglectStability(Src, Dst) ==
    \/ ReflexiveImpl(Src, Dst, {NeglectStability})
    \/ LayoutCompatible(Src, Dst, NoNeglect)

\* <T as PromiseTransmutableInto>::Archetype, NoType when T has no such impl.
\* A carrier's impl requires its element to have one, and the carrier over the
\* element's archetype to be TransmuteFrom<Self, NeglectStability> and itself
\* PromiseTransmutableInto.
RECURSIVE ArchetypeInto(_)
\* The impls of the primitives naming the next wider integer as archetype
\* instead of Self.
ArchetypeInto_Widening(T) ==
    CASE Kind(T) = "prim"    ->
            IF T[2] = "u8" THEN Prim("u16")
            ELSE IF T[2] = "u16" THEN Prim("u32")
            ELSE IF T[2] = "u32" THEN Prim("u64")
            ELSE T
      [] Kind(T) = "nominal" -> intoArch[T[2]]
      [] Kind(T) = "aligned" -> IF alignedDerive THEN T ELSE NoType
      [] Kind(T) \in {"arr", "ref", "refmut"} ->
            LET a == ArchetypeInto(T[2])
                A == <<Kind(T), a, T[3]>>
            IN  IF /\ a # NoType
                   /\ TransmuteFromNeglectStability(T, A)
                   /\ (A = T \/ ArchetypeInto(A) # NoType)
                THEN A ELSE NoType
      [] OTHER -> NoType

ArchetypeInto(T) ==
    CASE Kind(T) = "prim"    -> T
      [] Kind(T) = "nominal" -> intoArch[T[2]]
      [] Kind(T) = "aligned" -> IF alignedDerive THEN T ELSE NoType
      [] Kind(T) \in {"arr", "ref", "refmut"} ->
            LET a == ArchetypeInto(T[2])
                A == <<Kind(T), a, T[3]>>
            IN  IF /\ a # NoType
                   /\ TransmuteFromNeglectStability(T, A)
                   /\ (A = T \/ ArchetypeInto(A) # NoType)
                THEN A ELSE NoType
      [] OTHER -> NoType

\* <T as PromiseTransmutableFrom>::Archetype, NoType when T has no such impl.
RECURSIVE ArchetypeFrom(_)
ArchetypeFrom(T) ==
    CASE Kind(T) = "prim"    -> T
      [] Kind(T) = "nominal" -> fromArch[T[2]]
      [] Kind(T) = "aligned" -> IF alignedDerive THEN T ELSE NoType
      [] Kind(T) \in {"arr", "ref", "refmut"} ->
            LET a == ArchetypeFrom(T[2])
                A == <<Kind(T), a, T[3]>>
            IN  IF /\ a # NoType
                   /\ TransmuteFromNeglectStability(A, T)
                   /\ (A = T \/ ArchetypeFrom(A) # NoType)
                THEN A ELSE NoType
      [] OTHER -> NoType

PromiseTransmutableInto(T) == ArchetypeInto(T) # NoType
PromiseTransmutableFrom(T) == ArchetypeFrom(T) # NoType

(***************************************************************************)
(* Dst: TransmuteFrom<Src, Neglect>                                        *)
(***************************************************************************)
\* The stability rule without the bound on the two archetypes.
StableImpl_NoArchetypeBound(Src, Dst, W) ==
    /\ W = NoNeglect
    /\ PromiseTransmutableInto(Src)
    /\ PromiseTransmutableFrom(Dst)

\* The stability rule with the destination's outbound promise taken for its
\* inbound one.
StableImpl_OutboundForInbound(Src, Dst, W) ==
    /\ W = NoNeglect
    /\ PromiseTransmutableInto(Src)
    /\ PromiseTransmutableInto(Dst)
    /\ TransmuteFromNeglectStability(ArchetypeInto(Src), ArchetypeInto(Dst))

\* The stability rule demanding identical archetypes instead of convertible ones.
StableImpl_SameArchetype(Src, Dst, W) ==
    /\ W = NoNeglect
    /\ PromiseTransmutableInto(Src)
    /\ PromiseTransmutableFrom(Dst)
    /\ ArchetypeInto(Src) = ArchetypeFrom(Dst)

\* unsafe impl<Src, Dst> TransmuteFrom<Src> for Dst where Src: PromiseTransmutableInto,
\* Dst: PromiseTransmutableFrom, Dst::Archetype: TransmuteFrom<Src::Archetype, NeglectStability>
StableImpl(Src, Dst, W) ==
    /\ W = NoNeglect
    /\ PromiseTransmutableInto(Src)
    /\ PromiseTransmutableFrom(Dst)
    /\ TransmuteFromNeglectStability(ArchetypeInto(Src), ArchetypeFrom(Dst))

\* The instances the compiler supplies: with stability neglected, the layouts of
\* the two types themselves decide; with alignment or validity neglected (and
\* stability not), the layouts of the two archetypes decide, less the neglected check.
CompilerImpl(Src, Dst, W) ==
    \/ /\ W = {NeglectStability}
       /\ LayoutCompatible(Src, Dst, NoNeglect)
    \/ /\ W \in {{NeglectAlignment}, {NeglectValidity}}
       /\ PromiseTransmutableInto(Src)
       /\ PromiseTransmutableFrom(Dst)
       /\ LayoutCompatible(ArchetypeInto(Src), ArchetypeFrom(Dst), W)

TransmuteFrom(Src, Dst, W) ==
    /\ W \in UnsafeTransmuteOptions
    /\ \/ ReflexiveImpl(Src, Dst, W)
       \/ StableImpl(Src, Dst, W)
       \/ CompilerImpl(Src, Dst, W)

\* The blanket impl with the two types of its bound exchanged.
TransmuteInto_Exchanged(Src, Dst, W) ==
    /\ W \in UnsafeTransmuteOptions
    /\ TransmuteFrom(Dst, Src, W)

\* unsafe impl<Src, Dst, Neglect> TransmuteInto<Dst, Neglect> for Src
\*     where Dst: TransmuteFrom<Src, Neglect>
TransmuteInto(Src, Dst, W) ==
    /\ W \in UnsafeTransmuteOptions
    /\ TransmuteFrom(Src, Dst, W)

(***************************************************************************)
(* mod mem: layout queries phrased as transmutations.                      *)
(***************************************************************************)
\* The alignment gadget with the two references of its bound exchanged.
AlignLtEq_Exchanged(Lhs, Rhs, W) ==
    /\ W \in UnsafeTransmuteOptions
    /\ TransmuteFrom(Ref(Arr(Lhs, 0)), Ref(Arr(Rhs, 0)), W)

\* impl AlignLtEq<Rhs, Neglect> for Lhs
\*     where for<'a> &'a [Lhs; 0]: TransmuteFrom<&'a [Rhs; 0], Neglect>
AlignLtEq(Lhs, Rhs, W) ==
    /\ W \in UnsafeTransmuteOptions
    /\ TransmuteFrom(Ref(Arr(Rhs, 0)), Ref(Arr(Lhs, 0)), W)

\* impl AlignEq<Rhs, Neglect> for Lhs where Lhs: AlignLtEq<Rhs>, Rhs: AlignLtEq<Lhs>
AlignEq(Lhs, Rhs, W) ==
    /\ W \in UnsafeTransmuteOptions
    /\ AlignLtEq(Lhs, Rhs, NoNeglect)
    /\ AlignLtEq(Rhs, Lhs, NoNeglect)

\* impl SizeLtEq<Rhs, Neglect> for Lhs
\*     where for<'a> &'a Aligned<Rhs, Lhs>: TransmuteFrom<&'a Aligned<Lhs, Rhs>>
SizeLtEq(Lhs, Rhs, W) ==
    /\ W \in UnsafeTransmuteOptions
    /\ TransmuteFrom(Ref(Aligned(Lhs, Rhs)), Ref(Aligned(Rhs, Lhs)), NoNeglect)

\* impl SizeEq<Rhs, Neglect> for Lhs where Lhs: SizeLtEq<Rhs>, Rhs: SizeLtEq<Lhs>
SizeEq(Lhs, Rhs, W) ==
    /\ W \in UnsafeTransmuteOptions
    /\ SizeLtEq(Lhs, Rhs, NoNeglect)
    /\ SizeLtEq(Rhs, Lhs, NoNeglect)

(***************************************************************************)
(* mod cast                                                                *)
(***************************************************************************)
\* impl<Neglect: UnsafeTransmuteOptions> UnsafeVecCastOptions for Neglect {}
UnsafeVecCastOptions == UnsafeTransmuteOptions

\* impl CastFrom<Vec<Src>, Neglect> for Vec<Dst>
\*     where Dst: TransmuteFrom<Src, Neglect> + AlignEq<Dst, Neglect> + SizeEq<Dst, Neglect>
VecCastFrom(Src, Dst, W) ==
    /\ W \in UnsafeVecCastOptions
    /\ TransmuteFrom(Src, Dst, W)
    /\ AlignEq(Dst, Dst, W)
    /\ SizeEq(Dst, Dst, W)

(***************************************************************************)
(* The crate graph: stability declarations are added one impl at a time.   *)
(***************************************************************************)
ArchetypeCandidates == Sized

NoPromises == [n \in NominalNames |-> NoType]

\* steps, cyclic: the number of impls applied to derive a stability promise, and
\* whether the derivation came back to a goal it was still deriving;
\* vec, rvec: pointer, length and capacity of the Vec handed to a cast and of the
\* Vec it returned;
\* live: the bindings that still own the value's bits; drops: how many destructors
\* have run on them; srcDropped: the argument's destructor ran, against its own type.
NoCall ==
    [op |-> "none", src |-> NoType, dst |-> NoType, w |-> NoNeglect, ok |-> FALSE,
     panic |-> FALSE, arg |-> <<>>, ret |-> <<>>, n |-> 0, len |-> 0,
     live |-> {}, drops |-> 0, srcDropped |-> FALSE,
     vec |-> <<0, 0, 0>>, rvec |-> <<0, 0, 0>>,
     steps |-> 0, cyclic |-> FALSE]

Init ==
    /\ intoArch = NoPromises
    /\ fromArch = NoPromises
    /\ alignedDerive = FALSE
    /\ call = NoCall

\* The declaration without the bound Archetype: TransmuteFrom<Self, NeglectStability>.
DeclareInto_Unchecked(n, A) ==
    /\ intoArch[n] = NoType
    /\ (A = Nominal(n) \/ PromiseTransmutableInto(A))
    /\ intoArch' = [intoArch EXCEPT ![n] = A]
    /\ UNCHANGED <<fromArch, alignedDerive, call>>

\* impl PromiseTransmutableInto for T { type Archetype = A; }
\* accepted when A: TransmuteFrom<T, NeglectStability> + PromiseTransmutableInto
DeclareInto(n, A) ==
    /\ intoArch[n] = NoType
    /\ TransmuteFromNeglectStability(Nominal(n), A)
    /\ (A = Nominal(n) \/ PromiseTransmutableInto(A))
    /\ intoArch' = [intoArch EXCEPT ![n] = A]
    /\ UNCHANGED <<fromArch, alignedDerive, call>>

\* The declaration without the bound Archetype: TransmuteInto<Self, NeglectStability>.
DeclareFrom_NoConversionBound(n, A) ==
    /\ fromArch[n] = NoType
    /\ (A = Nominal(n) \/ PromiseTransmutableFrom(A))
    /\ fromArch' = [fromArch EXCEPT ![n] = A]
    /\ UNCHANGED <<intoArch, alignedDerive, call>>

\* impl PromiseTransmutableFrom for T { type Archetype = A; }
\* accepted when A: TransmuteInto<T, NeglectStability> + PromiseTransmutableFrom
DeclareFrom(n, A) ==
    /\ fromArch[n] = NoType
    /\ TransmuteInto(A, Nominal(n), {NeglectStability})
    /\ (A = Nominal(n) \/ PromiseTransmutableFrom(A))
    /\ fromArch' = [fromArch EXCEPT ![n] = A]
    /\ UNCHANGED <<intoArch, alignedDerive, call>>

\* #[derive(PromiseTransmutableFrom, PromiseTransmutableInto)] on Aligned, which
\* the source carries as a comment: the gadget types promise with themselves as
\* archetype once it is applied.
DeriveAligned ==
    /\ ~alignedDerive
    /\ alignedDerive' = TRUE
    /\ UNCHANGED <<intoArch, fromArch, call>>

Next ==
    \/ \E n \in NominalNames, A \in ArchetypeCandidates : DeclareInto(n, A)
    \/ \E n \in NominalNames, A \in ArchetypeCandidates : DeclareFrom(n, A)
    \/ DeriveAligned

Spec == Init /\ [][Next]_vars

(***************************************************************************)
(* Call sites.  A call site names a source type, a destination type and a  *)
(* Neglect parameter; it compiles (ok) when the bounds of the function     *)
(* hold, and then the function body runs on the argument.                  *)
(***************************************************************************)
Derived == [n \in NominalNames |-> IF n = "Lib" THEN NoType ELSE Nominal(n)]

\* The types whose values the call sites transmute, and the byte patterns tried.
ValueTypes   == {Prim("u8"), Prim("u16"), Prim("u32"), Nominal("Bool"), Nominal("Foo"),
                 Arr(Prim("u8"), MaxArrayLen)}
TargetTypes  == ValueTypes \cup {Nominal("Lib"), Prim("u64")}
RuntimeBytes == {Uninit, 0, 2}

ValuesOf(T) ==
    {b \in [1 .. SizeOf(T) -> RuntimeBytes] :
        \A i \in 1 .. SizeOf(T) : b[i] \in ByteValid(T, i - 1)}

\* ptr::read(&src as *const Src as *const Dst): the first size_of::<Dst>() bytes
\* at src's address; bytes past the end of src are whatever lies there.
PtrRead(arg, Dst) ==
    IF SizeOf(Dst) <= Len(arg)
    THEN {SubSeq(arg, 1, SizeOf(Dst))}
    ELSE {arg \o t : t \in [1 .. (SizeOf(Dst) - Len(arg)) -> RuntimeBytes]}

\* ptr::read_unaligned: the same bytes, read without relying on the address's alignment.
PtrReadUnaligned(arg, Dst) == PtrRead(arg, Dst)

\* { let dst = ptr::read(&src as *const Src as *const Self); mem::forget(src); dst }
transmute_from_body(arg, Dst) == PtrRead(arg, Dst)

\* { let dst = ptr::read_unaligned(..); mem::forget(src); dst }
unsafe_transmute_from_body(arg, Dst) == PtrReadUnaligned(arg, Dst)

\* { Dst::transmute_from(self) }
transmute_into_body(arg, Dst) == transmute_from_body(arg, Dst)

\* { unsafe { Dst::unsafe_transmute_from(self) } }
unsafe_transmute_into_body(arg, Dst) == unsafe_transmute_from_body(arg, Dst)

Site(op, Src, Dst, W, ok) ==
    [NoCall EXCEPT !.op = op, !.src = Src, !.dst = Dst, !.w = W, !.ok = ok]

\* mem::forget left out: src keeps owning the bits.
mem_forget_Omitted(owners, b) == owners

\* mem::forget(src): src gives up the bits without its destructor running.
mem_forget(owners, b) == owners \ {b}

\* The owners of the bits at the end of the body of transmute_from and of
\* unsafe_transmute_from: ptr::read makes dst an owner next to src, then mem::forget(src).
OwnersAtReturn == mem_forget({"src"} \cup {"dst"}, "src")

\* The function returns r: dst moves to the caller, and a src that still owns the
\* bits goes out of scope, which runs its destructor.
Returned(site, arg, r) ==
    [site EXCEPT !.arg = arg, !.ret = r,
                 !.live = OwnersAtReturn \cap {"dst"},
                 !.srcDropped = call.srcDropped \/ "src" \in OwnersAtReturn,
                 !.drops = call.drops + (IF "src" \in OwnersAtReturn THEN 1 ELSE 0)]

\* unimplemented!(): the call panics, and unwinding drops the argument.
Panicked(site, arg) ==
    [site EXCEPT !.arg = arg, !.panic = TRUE, !.srcDropped = TRUE,
                 !.drops = call.drops + 1]

\* A call site that does not compile: there is no program to run.
Rejected(site, arg) == [site EXCEPT !.arg = arg]

\* What a call site may be handed: a fresh value of one of the value types, or
\* the value an earlier conversion returned and nobody has dropped.
Arguments ==
    IF call = NoCall
    THEN UNION {{<<Src, arg>> : arg \in ValuesOf(Src)} : Src \in ValueTypes}
    ELSE IF "dst" \in call.live /\ call.op # "vec_unsafe_cast_from"
         THEN {<<call.dst, call.ret>>} ELSE {}

\* transmute_from answering a request it cannot prove with the fact that
\* neglects stability as well.
transmute_from_Degrading ==
    /\ UNCHANGED decls
    /\ \E a \in Arguments, Dst \in TargetTypes, W \in WaiverSets :
       LET Src == a[1]
           arg == a[2]
       IN
              IF /\ W \in SafeTransmuteOptions
                 /\ \/ TransmuteFrom(Src, Dst, W)
                    \/ TransmuteFrom(Src, Dst, W \cup {NeglectStability})
              THEN \E r \in transmute_from_body(arg, Dst) :
                      call' = Returned(Site("transmute_from", Src, Dst, W, TRUE), arg, r)
              ELSE call' = Rejected(Site("transmute_from", Src, Dst, W, FALSE), arg)

\* TransmuteFrom::transmute_from, where Neglect: SafeTransmuteOptions
transmute_from ==
    /\ UNCHANGED decls
    /\ \E a \in Arguments, Dst \in TargetTypes, W \in WaiverSets :
       LET Src == a[1]
           arg == a[2]
       IN
              IF W \in SafeTransmuteOptions /\ TransmuteFrom(Src, Dst, W)
              THEN \E r \in transmute_from_body(arg, Dst) :
                      call' = Returned(Site("transmute_from", Src, Dst, W, TRUE), arg, r)
              ELSE call' = Rejected(Site("transmute_from", Src, Dst, W, FALSE), arg)

\* TransmuteFrom::unsafe_transmute_from, where Neglect: UnsafeTransmuteOptions
unsafe_transmute_from ==
    /\ UNCHANGED decls
    /\ \E a \in Arguments, Dst \in TargetTypes, W \in WaiverSets :
       LET Src == a[1]
           arg == a[2]
       IN
              IF W \in UnsafeTransmuteOptions /\ TransmuteFrom(Src, Dst, W)
              THEN \E r \in unsafe_transmute_from_body(arg, Dst) :
                      call' = Returned(Site("unsafe_transmute_from", Src, Dst, W, TRUE), arg, r)
              ELSE call' = Rejected(Site("unsafe_transmute_from", Src, Dst, W, FALSE), arg)

\* TransmuteInto::transmute_into, where Neglect: SafeTransmuteOptions
transmute_into ==
    /\ UNCHANGED decls
    /\ \E a \in Arguments, Dst \in TargetTypes, W \in WaiverSets :
       LET Src == a[1]
           arg == a[2]
       IN
              IF W \in SafeTransmuteOptions /\ TransmuteInto(Src, Dst, W)
              THEN \E r \in transmute_into_body(arg, Dst) :
                      call' = Returned(Site("transmute_into", Src, Dst, W, TRUE), arg, r)
              ELSE call' = Rejected(Site("transmute_into", Src, Dst, W, FALSE), arg)

\* TransmuteInto::unsafe_transmute_into, where Neglect: UnsafeTransmuteOptions
unsafe_transmute_into ==
    /\ UNCHANGED decls
    /\ \E a \in Arguments, Dst \in TargetTypes, W \in WaiverSets :
       LET Src == a[1]
           arg == a[2]
       IN
              IF W \in UnsafeTransmuteOptions /\ TransmuteInto(Src, Dst, W)
              THEN \E r \in unsafe_transmute_into_body(arg, Dst) :
                      call' = Returned(Site("unsafe_transmute_into", Src, Dst, W, TRUE), arg, r)
              ELSE call' = Rejected(Site("unsafe_transmute_into", Src, Dst, W, FALSE), arg)

\* pub const fn safe_transmute, where Src: TransmuteInto<Dst, Neglect>,
\* Neglect: SafeTransmuteOptions; the body is unimplemented!()
safe_transmute ==
    /\ UNCHANGED decls
    /\ \E a \in Arguments, Dst \in TargetTypes, W \in WaiverSets :
       LET Src == a[1]
           arg == a[2]
       IN
              IF W \in SafeTransmuteOptions /\ TransmuteInto(Src, Dst, W)
              THEN call' = Panicked(Site("safe_transmute", Src, Dst, W, TRUE), arg)
              ELSE call' = Rejected(Site("safe_transmute", Src, Dst, W, FALSE), arg)

\* pub const unsafe fn unsafe_transmute, where Src: TransmuteInto<Dst, Neglect>,
\* Neglect: UnsafeTransmuteOptions; the body is unimplemented!()
unsafe_transmute ==
    /\ UNCHANGED decls
    /\ \E a \in Arguments, Dst \in TargetTypes, W \in WaiverSets :
       LET Src == a[1]
           arg == a[2]
       IN
              IF W \in UnsafeTransmuteOptions /\ TransmuteInto(Src, Dst, W)
              THEN call' = Panicked(Site("unsafe_transmute", Src, Dst, W, TRUE), arg)
              ELSE call' = Rejected(Site("unsafe_transmute", Src, Dst, W, FALSE), arg)

\* The caller lets the returned value go out of scope: its destructor runs.
drop_dst ==
    /\ "dst" \in call.live
    /\ call' = [call EXCEPT !.live = @ \ {"dst"}, !.drops = @ + 1]
    /\ UNCHANGED decls

(***************************************************************************)
(* Bounds on the mem gadgets, examined as call sites of their own.         *)
(***************************************************************************)
\* where Lhs: AlignLtEq<Rhs, Neglect>
RequireAlignLtEq ==
    /\ call = NoCall
    /\ UNCHANGED decls
    /\ \E Lhs \in Numerics, Rhs \in Numerics, W \in WaiverSets :
          call' = Site("AlignLtEq", Lhs, Rhs, W, AlignLtEq(Lhs, Rhs, W))

\* where Lhs: AlignEq<Rhs, Neglect>
RequireAlignEq ==
    /\ call = NoCall
    /\ UNCHANGED decls
    /\ \E Lhs \in Numerics, Rhs \in Numerics, W \in WaiverSets :
          call' = Site("AlignEq", Lhs, Rhs, W, AlignEq(Lhs, Rhs, W))

\* where Lhs: SizeLtEq<Rhs, Neglect>
RequireSizeLtEq ==
    /\ call = NoCall
    /\ UNCHANGED decls
    /\ \E Lhs \in Numerics, Rhs \in Numerics, W \in WaiverSets :
          call' = Site("SizeLtEq", Lhs, Rhs, W, SizeLtEq(Lhs, Rhs, W))

\* where Lhs: SizeEq<Rhs, Neglect>
RequireSizeEq ==
    /\ call = NoCall
    /\ UNCHANGED decls
    /\ \E Lhs \in Numerics, Rhs \in Numerics, W \in WaiverSets :
          call' = Site("SizeEq", Lhs, Rhs, W, SizeEq(Lhs, Rhs, W))

(***************************************************************************)
(* mod cast::options::slice                                                *)
(***************************************************************************)
\* const fn size_of<T>() -> usize { 20060723 }
size_of(T) == 20060723

\* core::mem::size_of_val(src) for a slice of n elements
size_of_val(Src, n) == n * SizeOf(Src)

\* impl<Neglect: SafeTransmuteOptions> SafeCastOptions for Neglect {}
SafeCastOptions == SafeTransmuteOptions

\* impl<Neglect: UnsafeTransmuteOptions> UnsafeSliceCastOptions for Neglect {}
UnsafeSliceCastOptions == UnsafeTransmuteOptions

\* impl CastFrom<&'i [Src], Neglect> for &'o [Dst]
\*     where &'o [Dst; size_of::<Src>()]: TransmuteFrom<&'i [Src; size_of::<Dst>()], Neglect>
SliceCastFrom(Src, Dst, W) ==
    /\ W \in UnsafeSliceCastOptions
    /\ TransmuteFrom(Ref(Arr(Src, size_of(Dst))), Ref(Arr(Dst, size_of(Src))), W)

\* The two reference types of the bound of
\* impl CastFrom<&'i mut [Src], Neglect> for &'o mut [Dst]: converted from, converted to.
MutSliceCastBound(Src, Dst) ==
    <<RefMut(Arr(Src, size_of(Dst))), RefMut(Arr(Dst, size_of(Src)))>>

\* impl CastFrom<&'i mut [Src], Neglect> for &'o mut [Dst]
\*     where &'o mut [Dst; size_of::<Src>()]:
\*               TransmuteFrom<&'i mut [Src; size_of::<Dst>()], Neglect>
MutSliceCastFrom(Src, Dst, W) ==
    /\ W \in UnsafeSliceCastOptions
    /\ TransmuteFrom(MutSliceCastBound(Src, Dst)[1], MutSliceCastBound(Src, Dst)[2], W)

\* The two reference types of the bound of
\* impl CastFrom<&'i mut [Src], Neglect> for &'o [Dst]: converted from, converted to.
MutToSharedSliceCastBound(Src, Dst) ==
    <<Ref(Arr(Src, size_of(Dst))), RefMut(Arr(Dst, size_of(Src)))>>

\* impl CastFrom<&'i mut [Src], Neglect> for &'o [Dst]
\*     where &'o mut [Dst; size_of::<Src>()]:
\*               TransmuteFrom<&'i [Src; size_of::<Dst>()], Neglect>
MutToSharedSliceCastFrom(Src, Dst, W) ==
    /\ W \in UnsafeSliceCastOptions
    /\ TransmuteFrom(MutToSharedSliceCastBound(Src, Dst)[1],
                     MutToSharedSliceCastBound(Src, Dst)[2], W)

\* size_of_val(src).checked_div(size_of::<Dst>()).unwrap_or(0)
slice_cast_len(Src, Dst, n) ==
    IF size_of(Dst) = 0 THEN 0 ELSE size_of_val(Src, n) \div size_of(Dst)

SliceElems == Numerics \cup {Prim("unit")}

\* The lengths of the slices handed to a cast: the short ones, and one as long
\* as the value size_of returns.
SliceLens == (0 .. MaxSliceLen) \cup {size_of(Prim("u8"))}

\* <&[Dst] as CastFrom<&[Src], Neglect>>::unsafe_cast_from on a slice of n elements
slice_unsafe_cast_from ==
    /\ call = NoCall
    /\ UNCHANGED decls
    /\ \E Src \in SliceElems, Dst \in SliceElems, W \in WaiverSets, n \in SliceLens :
              IF SliceCastFrom(Src, Dst, W)
              THEN call' = [Site("slice_unsafe_cast_from", Src, Dst, W, TRUE)
                               EXCEPT !.n = n, !.len = slice_cast_len(Src, Dst, n)]
              ELSE call' = [Site("slice_unsafe_cast_from", Src, Dst, W, FALSE)
                               EXCEPT !.n = n]

\* CastFrom::cast_from (provided method): unsafe { unsafe_cast_from(src) },
\* where Neglect: SafeCastOptions
slice_cast_from ==
    /\ call = NoCall
    /\ UNCHANGED decls
    /\ \E Src \in SliceElems, Dst \in SliceElems, W \in WaiverSets, n \in SliceLens :
              IF W \in SafeCastOptions /\ SliceCastFrom(Src, Dst, W)
              THEN call' = [Site("slice_cast_from", Src, Dst, W, TRUE)
                               EXCEPT !.n = n, !.len = slice_cast_len(Src, Dst, n)]
              ELSE call' = [Site("slice_cast_from", Src, Dst, W, FALSE) EXCEPT !.n = n]

\* <&mut [Dst] as CastFrom<&mut [Src], Neglect>>::unsafe_cast_from on a slice of
\* n elements
slice_mut_unsafe_cast_from ==
    /\ call = NoCall
    /\ UNCHANGED decls
    /\ \E Src \in SliceElems, Dst \in SliceElems, W \in WaiverSets, n \in SliceLens :
              IF MutSliceCastFrom(Src, Dst, W)
              THEN call' = [Site("slice_mut_unsafe_cast_from", Src, Dst, W, TRUE)
                               EXCEPT !.n = n, !.len = slice_cast_len(Src, Dst, n)]
              ELSE call' = [Site("slice_mut_unsafe_cast_from", Src, Dst, W, FALSE)
                               EXCEPT !.n = n]

\* <&[Dst] as CastFrom<&mut [Src], Neglect>>::unsafe_cast_from on a slice of
\* n elements
slice_mut_to_shared_unsafe_cast_from ==
    /\ call = NoCall
    /\ UNCHANGED decls
    /\ \E Src \in SliceElems, Dst \in SliceElems, W \in WaiverSets, n \in SliceLens :
              IF MutToSharedSliceCastFrom(Src, Dst, W)
              THEN call' = [Site("slice_mut_to_shared_unsafe_cast_from", Src, Dst, W, TRUE)
                               EXCEPT !.n = n, !.len = slice_cast_len(Src, Dst, n)]
              ELSE call' = [Site("slice_mut_to_shared_unsafe_cast_from", Src, Dst, W, FALSE)
                               EXCEPT !.n = n]

(***************************************************************************)
(* mod cast::options::vec                                                  *)
(***************************************************************************)
VecElems == TargetTypes

\* The Vecs handed to a cast: allocation pointer, length, capacity.
Vecs ==
    {v \in {8, 16} \X (0 .. MaxSliceLen) \X (0 .. MaxSliceLen) : v[2] <= v[3]}

\* Vec::into_raw_parts: the parts of the Vec, which gives up the allocation
\* without freeing it.
into_raw_parts(v) == v

\* Vec::from_raw_parts(ptr, length, capacity)
from_raw_parts(ptr, length, capacity) == <<ptr, length, capacity>>

\* The body with length and capacity passed in each other's place.
vec_unsafe_cast_from_body_Exchanged(v) ==
    LET parts == into_raw_parts(v)
    IN  from_raw_parts(parts[1], parts[3], parts[2])

\* { let (ptr, len, cap) = src.into_raw_parts(); Vec::from_raw_parts(ptr as *mut Dst, len, cap) }
vec_unsafe_cast_from_body(v) ==
    LET parts == into_raw_parts(v)
    IN  from_raw_parts(parts[1], parts[2], parts[3])

\* <Vec<Dst> as CastFrom<Vec<Src>, Neglect>>::unsafe_cast_from
vec_unsafe_cast_from ==
    /\ call = NoCall
    /\ UNCHANGED decls
    /\ \E Src \in VecElems, Dst \in VecElems, W \in WaiverSets, v \in Vecs :
          IF VecCastFrom(Src, Dst, W)
          THEN call' = [Site("vec_unsafe_cast_from", Src, Dst, W, TRUE)
                           EXCEPT !.n = v[2], !.vec = v,
                                  !.rvec = vec_unsafe_cast_from_body(v),
                                  !.len = vec_unsafe_cast_from_body(v)[2],
                                  !.live = {"dst"}]
          ELSE call' = [Site("vec_unsafe_cast_from", Src, Dst, W, FALSE)
                           EXCEPT !.n = v[2], !.vec = v]

(***************************************************************************)
(* Deriving T: PromiseTransmutableInto / PromiseTransmutableFrom, goal by   *)
(* goal as the impls of mod stability state it.  pending holds the goals   *)
(* whose derivation is under way.  The impl of a carrier has three         *)
(* where-clauses: the element's promise, the conversion between the        *)
(* carrier and the carrier over the element's archetype, and the promise   *)
(* of the carrier over the element's archetype.  A goal met again while it *)
(* is pending is taken as granted, as ArchetypeInto and ArchetypeFrom do.  *)
(***************************************************************************)
Derivation(ok, steps, cyclic) == [ok |-> ok, steps |-> steps, cyclic |-> cyclic]

RECURSIVE DeriveInto(_, _)
DeriveInto(T, pending) ==
    IF T \in pending THEN Derivation(TRUE, 0, TRUE)
    ELSE CASE Kind(T) = "prim"    -> Derivation(TRUE, 1, FALSE)
           [] Kind(T) = "nominal" -> Derivation(intoArch[T[2]] # NoType, 1, FALSE)
           [] Kind(T) = "aligned" -> Derivation(alignedDerive, 1, FALSE)
           [] Kind(T) \in {"arr", "ref", "refmut"} ->
                 LET e == DeriveInto(T[2], pending \cup {T})
                     A == <<Kind(T), ArchetypeInto(T[2]), T[3]>>
                     r == IF e.ok THEN DeriveInto(A, pending \cup {T})
                          ELSE Derivation(FALSE, 0, FALSE)
                 IN  Derivation(e.ok /\ r.ok /\ TransmuteFromNeglectStability(T, A),
                                1 + e.steps + r.steps,
                                e.cyclic \/ r.cyclic)
           [] OTHER -> Derivation(FALSE, 1, FALSE)

RECURSIVE DeriveFrom(_, _)
DeriveFrom(T, pending) ==
    IF T \in pending THEN Derivation(TRUE, 0, TRUE)
    ELSE CASE Kind(T) = "prim"    -> Derivation(TRUE, 1, FALSE)
           [] Kind(T) = "nominal" -> Derivation(fromArch[T[2]] # NoType, 1, FALSE)
           [] Kind(T) = "aligned" -> Derivation(alignedDerive, 1, FALSE)
           [] Kind(T) \in {"arr", "ref", "refmut"} ->
                 LET e == DeriveFrom(T[2], pending \cup {T})
                     A == <<Kind(T), ArchetypeFrom(T[2]), T[3]>>
                     r == IF e.ok THEN DeriveFrom(A, pending \cup {T})
                          ELSE Derivation(FALSE, 0, FALSE)
                 IN  Derivation(e.ok /\ r.ok /\ TransmuteFromNeglectStability(A, T),
                                1 + e.steps + r.steps,
                                e.cyclic \/ r.cyclic)
           [] OTHER -> Derivation(FALSE, 1, FALSE)

\* The carriers the derivation is asked about: arrays, references and mutable
\* references over the numeric primitives, nested up to twice.
Carriers ==
    LET once == {Arr(e, MaxArrayLen) : e \in Numerics} \cup {Ref(e) : e \in Numerics}
                    \cup {RefMut(e) : e \in Numerics}
    IN  once \cup {Arr(c, MaxArrayLen) : c \in once} \cup {Ref(c) : c \in once}
             \cup {RefMut(c) : c \in once}

\* where T: PromiseTransmutableInto; dst is <T as PromiseTransmutableInto>::Archetype
RequirePromiseInto ==
    /\ call = NoCall
    /\ UNCHANGED decls
    /\ \E T \in Carriers :
          LET d == DeriveInto(T, {})
          IN  call' = [Site("PromiseTransmutableInto", T, ArchetypeInto(T), NoNeglect, d.ok)
                          EXCEPT !.steps = d.steps, !.cyclic = d.cyclic]

\* where T: PromiseTransmutableFrom; dst is <T as PromiseTransmutableFrom>::Archetype
RequirePromiseFrom ==
    /\ call = NoCall
    /\ UNCHANGED decls
    /\ \E T \in Carriers :
          LET d == DeriveFrom(T, {})
          IN  call' = [Site("PromiseTransmutableFrom", T, ArchetypeFrom(T), NoNeglect, d.ok)
                          EXCEPT !.steps = d.steps, !.cyclic = d.cyclic]

(***************************************************************************)
(* A crate that uses the API: the stability declarations are in place      *)
(* (none, or the derives on Foo and Bool) and one call site is examined.   *)
(***************************************************************************)
InitUse ==
    /\ \/ intoArch = NoPromises /\ fromArch = NoPromises
       \/ intoArch = Derived /\ fromArch = Derived
    /\ alignedDerive \in BOOLEAN
    /\ call = NoCall

NextUse ==
    \/ transmute_from
    \/ unsafe_transmute_from
    \/ transmute_into
    \/ unsafe_transmute_into
    \/ safe_transmute
    \/ unsafe_transmute
    \/ RequireAlignLtEq
    \/ RequireAlignEq
    \/ RequireSizeLtEq
    \/ RequireSizeEq
    \/ slice_unsafe_cast_from
    \/ slice_cast_from
    \/ slice_mut_unsafe_cast_from
    \/ slice_mut_to_shared_unsafe_cast_from
    \/ vec_unsafe_cast_from
    \/ drop_dst
    \/ RequirePromiseInto
    \/ RequirePromiseFrom

SpecUse == InitUse /\ [][NextUse]_vars

(***************************************************************************)
(* The types the properties below range over.                              *)
(***************************************************************************)
U8  == Prim("u8")
U16 == Prim("u16")
U32 == Prim("u32")
U64 == Prim("u64")
Foo == Nominal("Foo")
Lib == Nominal("Lib")

ArrayElems == {U8, Foo}
Referents  == {U16, U32, Foo, Lib, Arr(U8, MaxArrayLen), Aligned(U8, U16)}
Types ==
    Sized \cup {TypeParam}
          \cup {Arr(T, n) : T \in ArrayElems, n \in 0 .. MaxArrayLen}
          \cup {Aligned(U8, U16)}
          \cup {Ref(T) : T \in Referents}

(***************************************************************************)
(* C1.  Stability-derived rule: whenever Src is declared outbound-stable   *)
(* with archetype ArchSrc, Dst is declared inbound-stable with archetype   *)
(* ArchDst, and ArchDst converts from ArchSrc neglecting stability, Dst    *)
(* converts from Src with no waiver.                                       *)
(***************************************************************************)
C1_StabilityDerivedRule ==
    \A Src \in Types, Dst \in Types :
        ( /\ PromiseTransmutableInto(Src)
          /\ PromiseTransmutableFrom(Dst)
          /\ TransmuteFrom(ArchetypeInto(Src), ArchetypeFrom(Dst), {NeglectStability}) )
        => TransmuteFrom(Src, Dst, NoNeglect)

\* Lib promised with u32 as archetype, Foo with itself: Foo converts from Lib
\* with no waiver through two different archetypes.
C1_Witness ==
    /\ intoArch["Lib"] = U32
    /\ fromArch["Foo"] = Foo
    /\ TransmuteFrom(Lib, Foo, NoNeglect)

SafeFamily   == {"transmute_from", "transmute_into", "safe_transmute"}
UnsafeFamily == {"unsafe_transmute_from", "unsafe_transmute_into", "unsafe_transmute"}
FromMethods  == {"transmute_from", "unsafe_transmute_from"}
IntoMethods  == {"transmute_into", "unsafe_transmute_into"}
SliceCasts   == {"slice_cast_from", "slice_unsafe_cast_from"}

(***************************************************************************)
(* C3.  Reflexivity: every type T converts from itself when stability is   *)
(* neglected, and transmute_from on a value of T under that fact returns   *)
(* the bits it was given.                                                  *)
(***************************************************************************)
C3_Reflexivity ==
    /\ \A T \in Types : TransmuteFrom(T, T, {NeglectStability})
    /\ (call.op = "transmute_from" /\ call.src = call.dst /\ call.w = {NeglectStability})
          => (call.ok /\ call.ret = call.arg)

\* Foo::transmute_from(a Foo whose padding byte is uninitialised), stability neglected.
C3_Witness ==
    /\ call.op = "transmute_from"
    /\ call.src = Foo /\ call.dst = Foo
    /\ call.w = {NeglectStability}
    /\ call.ok
    /\ call.arg = <<2, Uninit, 0, 2>>
    /\ call.ret = call.arg

(***************************************************************************)
(* C4.  The safe family (transmute_from, transmute_into, safe_transmute)   *)
(* accepts exactly the waiver sets {} and {Stability}; each of them is     *)
(* also accepted by the unsafe family; Alignment and Validity are accepted *)
(* by the unsafe family and never by the safe one.                         *)
(***************************************************************************)
C4_SafeFamilyWaivers ==
    /\ SafeTransmuteOptions = {NoNeglect, {NeglectStability}}
    /\ SafeTransmuteOptions \subseteq UnsafeTransmuteOptions
    /\ {NeglectAlignment} \in UnsafeTransmuteOptions
    /\ {NeglectValidity} \in UnsafeTransmuteOptions
    /\ call.op \in SafeFamily =>
          call.ok = ( /\ call.w \in {NoNeglect, {NeglectStability}}
                      /\ TransmuteFrom(call.src, call.dst, call.w) )
    /\ call.op \in UnsafeFamily =>
          call.ok = ( /\ call.w \in {NoNeglect, {NeglectStability},
                                     {NeglectAlignment}, {NeglectValidity}}
                      /\ TransmuteFrom(call.src, call.dst, call.w) )

\* A safe call refused although the same conversion compiles through the unsafe
\* family: u8 into Bool with validity neglected.
C4_Witness ==
    /\ call.op = "transmute_from"
    /\ call.src = U8 /\ call.dst = Nominal("Bool")
    /\ call.w = {NeglectValidity}
    /\ ~call.ok
    /\ TransmuteFrom(call.src, call.dst, call.w)

(***************************************************************************)
(* C5.  "into" mirrors "from": Src converts into Dst under W exactly when  *)
(* Dst converts from Src under W, and transmute_into /                     *)
(* unsafe_transmute_into return what transmute_from / unsafe_transmute_from*)
(* return for the same input.                                              *)
(***************************************************************************)
C5_IntoMirrorsFrom ==
    /\ call.op \in IntoMethods \cup FromMethods =>
          (TransmuteInto(call.src, call.dst, call.w)
              <=> TransmuteFrom(call.src, call.dst, call.w))
    /\ call.op = "transmute_into" =>
          /\ call.ok = (call.w \in SafeTransmuteOptions
                           /\ TransmuteFrom(call.src, call.dst, call.w))
          /\ call.ok => call.ret \in transmute_from_body(call.arg, call.dst)
    /\ call.op = "unsafe_transmute_into" =>
          /\ call.ok = (call.w \in UnsafeTransmuteOptions
                           /\ TransmuteFrom(call.src, call.dst, call.w))
          /\ call.ok => call.ret \in unsafe_transmute_from_body(call.arg, call.dst)

\* 64u32.transmute_into() : Foo
C5_Witness ==
    /\ call.op = "transmute_into"
    /\ call.src = U32 /\ call.dst = Foo
    /\ call.w = NoNeglect
    /\ call.ok
    /\ call.ret = call.arg

(***************************************************************************)
(* C6.  End-to-end record scenario: with Foo (a u8, a padding byte, a u16) *)
(* stability-committed, converting a u32 into Foo is accepted with no      *)
(* waiver, and converting Foo into a u32 is rejected under every waiver    *)
(* set that does not neglect validity.                                     *)
(***************************************************************************)
TransmuteCalls == SafeFamily \cup UnsafeFamily

C6_RecordScenario ==
    (intoArch["Foo"] = Foo /\ fromArch["Foo"] = Foo /\ call.op \in TransmuteCalls) =>
        /\ (call.src = U32 /\ call.dst = Foo /\ call.w = NoNeglect) => call.ok
        /\ (call.src = Foo /\ call.dst = U32 /\ NeglectValidity \notin call.w) => ~call.ok

\* let _ : u32 = Foo(..).transmute_into();  is rejected
C6_Witness ==
    /\ intoArch["Foo"] = Foo /\ fromArch["Foo"] = Foo
    /\ call.op = "transmute_into"
    /\ call.src = Foo /\ call.dst = U32
    /\ call.w = NoNeglect
    /\ ~call.ok

(***************************************************************************)
(* C7.  Size query consistency: for every pair of primitive numeric types  *)
(* (A, B), A: SizeLtEq<B> is provable if and only if                       *)
(* size_of(A) <= size_of(B).  Stated for a crate in which the derive on    *)
(* Aligned is applied.                                                     *)
(***************************************************************************)
C7_SizeQueryConsistency ==
    (alignedDerive /\ call.op = "SizeLtEq" /\ call.w = NoNeglect) =>
        (call.ok <=> SizeOf(call.src) <= SizeOf(call.dst))

(***************************************************************************)
(* C8.  Alignment query consistency: for every pair of primitive numeric   *)
(* types (A, B), A: AlignLtEq<B> (a reference conversion from &[B; 0] to   *)
(* &[A; 0]) is provable if and only if align_of(A) <= align_of(B); this    *)
(* for every waiver that leaves the alignment check in place.              *)
(***************************************************************************)
C8_AlignQueryConsistency ==
    ( /\ call.op = "AlignLtEq"
      /\ call.w \in UnsafeTransmuteOptions
      /\ NeglectAlignment \notin call.w ) =>
        (call.ok <=> AlignOf(call.src) <= AlignOf(call.dst))

\* u16: AlignLtEq<u32> holds with the default Neglect.
C8_Witness ==
    /\ call.op = "AlignLtEq"
    /\ call.src = U16 /\ call.dst = U32
    /\ call.w = NoNeglect
    /\ call.ok

(***************************************************************************)
(* C9.  Buffer casting equal-layout requirement: a cast from Vec<Src> to   *)
(* Vec<Dst> is provable only when size_of(Src) = size_of(Dst),             *)
(* align_of(Src) = align_of(Dst) and Dst converts from Src.                *)
(***************************************************************************)
C9_VecCastEqualLayout ==
    (call.op = "vec_unsafe_cast_from" /\ call.ok) =>
        /\ SizeOf(call.src) = SizeOf(call.dst)
        /\ AlignOf(call.src) = AlignOf(call.dst)
        /\ TransmuteFrom(call.src, call.dst, call.w)

(***************************************************************************)
(* C10.  Slice rescaling: casting a run of N source elements into a run    *)
(* of destination elements of non-zero size returns a run of length        *)
(* floor(N * size_of(Src) / size_of(Dst)).                                 *)
(***************************************************************************)
C10_SliceRescaling ==
    (call.op \in SliceCasts /\ call.ok /\ SizeOf(call.dst) > 0) =>
        call.len = (call.n * SizeOf(call.src)) \div SizeOf(call.dst)

(***************************************************************************)
(* C11.  Linear ownership hand-off: after transmute_from or                *)
(* unsafe_transmute_from (and the "into" methods, which call them) the     *)
(* source's destructor has not run, the destination is the only owner of   *)
(* the bits, and over the conversion and the later drop of the result the  *)
(* bits are finalized at most once.                                        *)
(***************************************************************************)
C11_LinearOwnership ==
    (call.op \in FromMethods \cup IntoMethods /\ call.ok) =>
        /\ ~call.srcDropped
        /\ call.live \subseteq {"dst"}
        /\ call.drops <= 1
        /\ call.drops + Cardinality(call.live) = 1

\* A value converted twice (into a Lib, which no call site starts from, and on
\* into a Foo) has been dropped: one destructor ran, and it was the Foo's.
C11_Witness ==
    /\ call.op = "transmute_from"
    /\ call.src = Lib /\ call.dst = Foo
    /\ call.ok
    /\ call.live = {}
    /\ call.drops = 1
    /\ ~call.srcDropped

(***************************************************************************)
(* C12.  No runtime error path: each of safe_transmute, unsafe_transmute,  *)
(* transmute_into, unsafe_transmute_into, transmute_from and               *)
(* unsafe_transmute_from, called where its bounds hold, returns a value of *)
(* the destination type and does not panic.                                *)
(***************************************************************************)
C12_NoRuntimeErrorPath ==
    (call.op \in TransmuteCalls /\ call.ok) =>
        /\ ~call.panic
        /\ Len(call.ret) = SizeOf(call.dst)
        /\ \A i \in 1 .. Len(call.ret) : call.ret[i] \in RuntimeBytes

(***************************************************************************)
(* C13.  Buffer casting frame: a Vec cast that compiles returns a Vec with *)
(* the allocation pointer, the length and the capacity of the source Vec;  *)
(* the source is consumed without being freed, so the allocation has one   *)
(* owner afterwards and is freed at most once.                             *)
(***************************************************************************)
C13_VecCastFrame ==
    (call.op = "vec_unsafe_cast_from" /\ call.ok) =>
        /\ call.rvec = call.vec
        /\ call.len = call.n
        /\ ~call.srcDropped
        /\ call.drops + Cardinality(call.live) = 1

\* A Vec<Bool> of 1 element and capacity 3 cast to a Vec<u8>.
C13_Witness ==
    /\ call.op = "vec_unsafe_cast_from"
    /\ call.src = Nominal("Bool") /\ call.dst = U8
    /\ call.w = NoNeglect
    /\ call.ok
    /\ call.vec = <<16, 1, 3>>
    /\ call.rvec = <<16, 1, 3>>
    /\ call.live = {"dst"}

(***************************************************************************)
(* C14.  Inbound and outbound stability are independent: Dst converts from *)
(* Src with no waiver exactly when Src is outbound-stable, Dst is          *)
(* inbound-stable and Dst's inbound archetype converts from Src's outbound *)
(* archetype; nothing is asked of Src's inbound or Dst's outbound promise. *)
(* An outbound declaration with archetype Arch asks for (T, Arch) and not  *)
(* for (Arch, T), and a type is a no-waiver destination only if it is      *)
(* declared inbound-stable.                                                *)
(***************************************************************************)
C14_StabilityIndependence ==
    /\ \A Src \in Types, Dst \in Types :
          TransmuteFrom(Src, Dst, NoNeglect) <=>
              ( /\ PromiseTransmutableInto(Src)
                /\ PromiseTransmutableFrom(Dst)
                /\ TransmuteFrom(ArchetypeInto(Src), ArchetypeFrom(Dst), {NeglectStability}) )
    /\ \A Src \in Types, n \in NominalNames :
          fromArch[n] = NoType => ~TransmuteFrom(Src, Nominal(n), NoNeglect)
    /\ \A n \in NominalNames :
          intoArch[n] # NoType => TransmuteFrom(Nominal(n), intoArch[n], {NeglectStability})

\* Bool is declared outbound-stable only, with u8 as archetype: u8 converts from
\* Bool with no waiver, Bool does not convert from its archetype, and nothing
\* converts into Bool with no waiver.
C14_Witness ==
    /\ intoArch["Bool"] = U8
    /\ fromArch["Bool"] = NoType
    /\ TransmuteFrom(Nominal("Bool"), U8, NoNeglect)
    /\ ~TransmuteFrom(U8, Nominal("Bool"), {NeglectStability})
    /\ \A Src \in Types : ~TransmuteFrom(Src, Nominal("Bool"), NoNeglect)

C16_ArchetypeInvariant ==
    \A T \in Types :
        /\ PromiseTransmutableInto(T) =>
              /\ PromiseTransmutableInto(ArchetypeInto(T))
              /\ TransmuteFrom(T, ArchetypeInto(T), {NeglectStability})
        /\ PromiseTransmutableFrom(T) =>
              /\ PromiseTransmutableFrom(ArchetypeFrom(T))
              /\ TransmuteFrom(ArchetypeFrom(T), T, {NeglectStability})

\* Lib is outbound-stable through Foo, Foo inbound-stable through u32; so is
\* &Lib through &Foo.
C16_Witness ==
    /\ intoArch["Lib"] = Foo
    /\ intoArch["Foo"] = Foo
    /\ fromArch["Foo"] = U32
    /\ ArchetypeInto(Ref(Lib)) = Ref(Foo)
    /\ TransmuteFrom(Lib, Foo, {NeglectStability})
    /\ TransmuteFrom(U32, Foo, {NeglectStability})

(***************************************************************************)
(* C17.  Structural archetype derivation terminates: for every array and   *)
(* reference of finite nesting depth over a primitive type T, deriving     *)
(* its stability promise ends, concludes that the carrier is               *)
(* stability-committed with the same carrier over T's archetype as         *)
(* archetype, and never meets the goal it is deriving among its own        *)
(* premises.                                                               *)
(***************************************************************************)
C17_DerivationWellFounded ==
    (call.op \in {"PromiseTransmutableInto", "PromiseTransmutableFrom"}) =>
        /\ call.ok
        /\ call.dst = call.src
        /\ call.steps >= 1
        /\ ~call.cyclic

(***************************************************************************)
(* C18.  No silent stability waiver: a conversion whose source is not      *)
(* declared outbound-stable, or whose destination is not declared          *)
(* inbound-stable, is rejected under every waiver set that does not        *)
(* contain Stability; a call compiles only on the fact for the very        *)
(* waiver set it names, never on the fact for a set that neglects more.    *)
(***************************************************************************)
C18_NoSilentStabilityWaiver ==
    call.op \in TransmuteCalls =>
        /\ ( /\ NeglectStability \notin call.w
             /\ \/ ~PromiseTransmutableInto(call.src)
                \/ ~PromiseTransmutableFrom(call.dst) ) => ~call.ok
        /\ call.ok => TransmuteFrom(call.src, call.dst, call.w)

\* Lib::transmute_from(a u32) with no waiver is rejected, Lib being undeclared,
\* although Lib converts from u32 once stability is neglected.
C18_Witness ==
    /\ call.op = "transmute_from"
    /\ call.src = U32 /\ call.dst = Lib
    /\ call.w = NoNeglect
    /\ ~call.ok
    /\ ~PromiseTransmutableFrom(Lib)
    /\ TransmuteFrom(U32, Lib, {NeglectStability})

(***************************************************************************)
(* C19.  Equality queries are the two-directional <= queries under the     *)
(* same waiver set: A: AlignEq<B, W> holds exactly when A: AlignLtEq<B, W> *)
(* and B: AlignLtEq<A, W> both hold, and A: SizeEq<B, W> holds exactly     *)
(* when A: SizeLtEq<B, W> and B: SizeLtEq<A, W> both hold.                 *)
(***************************************************************************)
C19_EqualityQueries ==
    /\ call.op = "AlignEq" =>
          (call.ok <=> ( /\ AlignLtEq(call.src, call.dst, call.w)
                         /\ AlignLtEq(call.dst, call.src, call.w) ))
    /\ call.op = "SizeEq" =>
          (call.ok <=> ( /\ SizeLtEq(call.src, call.dst, call.w)
                         /\ SizeLtEq(call.dst, call.src, call.w) ))

(***************************************************************************)
(* C20.  Zero-size destination: a slice cast whose destination element has *)
(* size zero returns a slice of length 0 for every source slice, and does  *)
(* not fail on a division by zero.                                         *)
(***************************************************************************)
C20_ZeroSizeDestination ==
    (call.op \in SliceCasts /\ call.ok /\ SizeOf(call.dst) = 0) =>
        /\ call.len = 0
        /\ ~call.panic

(***************************************************************************)
(* C21.  Archetype is idempotent: for the types the source declares stable *)
(* itself (the primitives, and the arrays, references and mutable          *)
(* references built over them), the archetype of the type's archetype is   *)
(* the archetype itself, in the outbound and in the inbound direction.     *)
(***************************************************************************)
C21_ArchetypeIdempotent ==
    /\ \A T \in Prims :
          /\ ArchetypeInto(T) # NoType
          /\ ArchetypeInto(ArchetypeInto(T)) = ArchetypeInto(T)
          /\ ArchetypeFrom(T) # NoType
          /\ ArchetypeFrom(ArchetypeFrom(T)) = ArchetypeFrom(T)
    /\ call.op = "PromiseTransmutableInto" =>
          /\ call.dst = ArchetypeInto(call.src)
          /\ call.dst # NoType
          /\ ArchetypeInto(call.dst) = call.dst
    /\ call.op = "PromiseTransmutableFrom" =>
          /\ call.dst = ArchetypeFrom(call.src)
          /\ call.dst # NoType
          /\ ArchetypeFrom(call.dst) = call.dst

\* <&mut [u16; N] as PromiseTransmutableInto>::Archetype is &mut [u16; N], and so
\* is the archetype of that.
C21_Witness ==
    /\ call.op = "PromiseTransmutableInto"
    /\ call.src = RefMut(Arr(U16, MaxArrayLen))
    /\ call.dst = RefMut(Arr(U16, MaxArrayLen))
    /\ ArchetypeInto(call.dst) = call.dst

(***************************************************************************)
(* C22.  Mutable-to-shared slice casting is a weakening of                 *)
(* mutable-to-mutable slice casting: whenever the cast from &mut [Src] to  *)
(* &mut [Dst] is provable under W, the cast from &mut [Src] to &[Dst] is   *)
(* provable under W, and the bound of the latter does not ask for a        *)
(* mutable reference converted from a shared one.                          *)
(***************************************************************************)
C22_MutToSharedWeakening ==
    call.op = "slice_mut_to_shared_unsafe_cast_from" =>
        /\ MutSliceCastFrom(call.src, call.dst, call.w) => call.ok
        /\ ~ ( /\ Kind(MutToSharedSliceCastBound(call.src, call.dst)[1]) = "ref"
               /\ Kind(MutToSharedSliceCastBound(call.src, call.dst)[2]) = "refmut" )

====
